---- MODULE Spec2Model ----
(***************************************************************************)
(* NYC taxi fare prediction service (src/app.py): the prediction pipeline. *)
(*                                                                         *)
(* State: the artifacts present in MODEL_DIR (disk), the process-wide      *)
(* model cache (_models) and, per request-serving thread, the position in  *)
(* the handler and its local variables.  Handlers are split at the points  *)
(* where they read or write shared state (the cache, the disk), so that    *)
(* artifacts can appear or disappear and other threads can run in between. *)
(* Every specification runs the handlers on all the threads.               *)
(*                                                                         *)
(* Numbers: a raw estimate is an integer number of eighths of a dollar     *)
(* (binary fractions, exact in floating point); a rounded prediction is an *)
(* integer number of cents; an estimate also carries the numeric type the  *)
(* model returns it in.  The haversine distance is real-valued             *)
(* trigonometry and is not part of the model; numeric coordinates are      *)
(* taken as given.                                                         *)
(***************************************************************************)
EXTENDS Integers, Sequences, FiniteSets, TLC

VARIABLES
    disk,        \* names n for which MODEL_DIR/<n>_model.pkl exists
    models,      \* _models: name -> loaded instance
    loadCount,   \* name -> number of joblib.load calls that read the artifact
    pc,          \* thread -> position in its handler
    op,          \* thread -> route being served
    data,        \* thread -> request body (request.get_json())
    model_name,  \* thread -> local model_name
    model,       \* thread -> local model
    ret,         \* thread -> where load_model returns to
    available,   \* thread -> availability list built by get_model_info
    infoIdx,     \* thread -> next entry of get_model_info's loop
    results,     \* thread -> batch_predict's results list
    idx,         \* thread -> index of the batch item being processed
    resp,        \* thread -> the response of the finished call
    fresh,       \* thread -> the instance joblib.load returned, not yet stored
    diskChanged, \* thread -> an artifact changed while the predict call was running
    fTs,         \* input of the feature-derivation specification
    fOut         \* its output

vars == <<disk, models, loadCount, pc, op, data, model_name, model, ret,
          available, infoIdx, results, idx, resp, fresh, diskChanged,
          fTs, fOut>>

(***************************************************************************)
(* Bounds of the model.                                                    *)
(***************************************************************************)
NumThreads == 2
MaxBatch == 2

\* the request-serving threads of the server
Threads == 1..NumThreads

(***************************************************************************)
(* Program constants.                                                      *)
(***************************************************************************)
\* get_model_info's dict, in insertion order
ModelIds == <<"linear_regression", "decision_tree", "random_forest", "xgboost">>
ModelIdSet == {ModelIds[i] : i \in 1..Len(ModelIds)}

\* a model name outside the enumerated set, as a client may request it
OtherNames == {"custom"}
Names == ModelIdSet \cup OtherNames

required_fields == <<"pickup_latitude", "pickup_longitude", "dropoff_latitude",
                     "dropoff_longitude", "pickup_datetime">>
RequiredSet == {required_fields[i] : i \in 1..Len(required_fields)}

DefaultModel == "random_forest"

BatchFallbackModel == "linear_regression"

\* the 'model' key is not in the request
Absent == "<absent>"

\* Python's None, as a model
None == [artifact |-> "None", serial |-> 0]

(***************************************************************************)
(* pd.to_datetime on the text "YYYY-MM-DDTHH:MM:00", given as the tuple    *)
(* <<year, month, day, hour, minute>> of its numeric fields.               *)
(***************************************************************************)
IsLeap(y) == (y % 4 = 0 /\ y % 100 # 0) \/ y % 400 = 0

DaysInMonth(y, m) ==
    IF m = 2 THEN (IF IsLeap(y) THEN 29 ELSE 28)
    ELSE IF m \in {4, 6, 9, 11} THEN 30 ELSE 31

\* days since 1970-01-01 in the proleptic Gregorian calendar
DaysFromCivil(y, m, d) ==
    LET yy  == IF m <= 2 THEN y - 1 ELSE y
        era == yy \div 400
        yoe == yy - era * 400
        mp  == IF m > 2 THEN m - 3 ELSE m + 9
        doy == (153 * mp + 2) \div 5 + d - 1
        doe == yoe * 365 + yoe \div 4 - yoe \div 100 + doy
    IN  era * 146097 + doe - 719468

\* minutes since the epoch
EpochMinutes(ts) == DaysFromCivil(ts[1], ts[2], ts[3]) * 1440 + ts[4] * 60 + ts[5]

\* the fields form a calendar date-time that a 64-bit nanosecond Timestamp holds
ValidTs(ts) ==
    /\ ts[1] \in 1..9999
    /\ ts[2] \in 1..12
    /\ ts[3] >= 1 /\ ts[3] <= DaysInMonth(ts[1], ts[2])
    /\ ts[4] \in 0..23
    /\ ts[5] \in 0..59
    /\ EpochMinutes(ts) >= -153722867
    /\ EpochMinutes(ts) <= 153722867

\* Timestamp.dayofweek: Monday = 0 .. Sunday = 6 (1970-01-01 was a Thursday)
dayofweek(ts) == (DaysFromCivil(ts[1], ts[2], ts[3]) + 3) % 7

to_datetime(ts) ==
    IF ValidTs(ts)
    THEN [ok |-> TRUE, year |-> ts[1], month |-> ts[2], day |-> ts[3],
          hour |-> ts[4], dayofweek |-> dayofweek(ts)]
    ELSE [ok |-> FALSE, year |-> 0, month |-> 0, day |-> 0,
          hour |-> 0, dayofweek |-> 0]

(***************************************************************************)
(* create_features: the time-derived part of the feature vector.           *)
(***************************************************************************)
Flag(b) == IF b THEN 1 ELSE 0

is_morning(hour) == Flag(6 <= hour /\ hour < 12)
is_afternoon(hour) == Flag(12 <= hour /\ hour < 18)
is_evening(hour) == Flag(18 <= hour /\ hour < 22)

is_night_offby1(hour) == Flag(hour > 22 \/ hour < 6)
is_night(hour) == Flag(hour >= 22 \/ hour < 6)

is_weekend(day_of_week) == Flag(day_of_week >= 5)
is_rush_hour(hour) == Flag((7 <= hour /\ hour < 10) \/ (16 <= hour /\ hour < 19))
is_peak_hour(hour) == Flag(hour \in {8, 9, 17, 18, 19, 20})

NoFeatures ==
    [ok |-> FALSE, hour |-> 0, day_of_week |-> 0, month |-> 0, year |-> 0,
     is_morning |-> 0, is_afternoon |-> 0, is_evening |-> 0, is_night |-> 0,
     is_weekend |-> 0, is_rush_hour |-> 0, is_peak_hour |-> 0]

\* ok = FALSE: pd.to_datetime raised
create_features(pickup_datetime) ==
    LET dt == to_datetime(pickup_datetime) IN
    IF ~dt.ok THEN NoFeatures
    ELSE [ok |-> TRUE, hour |-> dt.hour, day_of_week |-> dt.dayofweek,
          month |-> dt.month, year |-> dt.year,
          is_morning |-> is_morning(dt.hour),
          is_afternoon |-> is_afternoon(dt.hour),
          is_evening |-> is_evening(dt.hour),
          is_night |-> is_night(dt.hour),
          is_weekend |-> is_weekend(dt.dayofweek),
          is_rush_hour |-> is_rush_hour(dt.hour),
          is_peak_hour |-> is_peak_hour(dt.hour)]

(***************************************************************************)
(* Requests, responses and the model's estimate.                           *)
(***************************************************************************)
Complete(item) == RequiredSet \subseteq item.present

LastMissing(present) ==
    required_fields[CHOOSE i \in 1..Len(required_fields) :
        /\ required_fields[i] \notin present
        /\ \A j \in (i + 1)..Len(required_fields) : required_fields[j] \in present]
\* the field the validation loop (and the argument list of create_features)
\* trips over first
FirstMissing(present) ==
    required_fields[CHOOSE i \in 1..Len(required_fields) :
        /\ required_fields[i] \notin present
        /\ \A j \in 1..(i - 1) : required_fields[j] \in present]

\* data.get('model', 'random_forest')
RequestedModel(item) == IF item.model = Absent THEN DefaultModel ELSE item.model

\* A number is a value v with the type that holds it: "int" (the literal 0),
\* "float" (a Python float or numpy.float64, which is one) or "float32"
\* (numpy.float32, which is not a Python float).
NoClamp(prediction) == prediction
\* max(0, prediction): the int 0 unless the estimate is greater, and then the
\* estimate itself, in its own type
Clamp(prediction) ==
    IF prediction.v > 0 THEN prediction ELSE [v |-> 0, dtype |-> "int"]

\* eighths of a dollar to cents, ties to the even cent
Round2(x) ==
    LET n == 25 * x IN
    IF n % 2 = 0 THEN n \div 2
    ELSE LET lo == (n - 1) \div 2 IN IF lo % 2 = 0 THEN lo ELSE lo + 1

\* round(prediction, 2) keeps the type of its argument
round(prediction) == [v |-> Round2(prediction.v), dtype |-> prediction.dtype]

NoResp == [status |-> 0, error |-> "", field |-> "", prediction |-> 0,
           dtype |-> "", model_used |-> "", by |-> None]

\* a success payload; 'by' records the instance that produced the estimate
Ok(prediction, name, inst) ==
    [status |-> 200, error |-> "", field |-> "", prediction |-> prediction.v,
     dtype |-> prediction.dtype, model_used |-> name, by |-> inst]

\* a 200 response whose body is a list (of models, of batch results)
OkList == [NoResp EXCEPT !.status = 200]

Err(status, error, field) ==
    [status |-> status, error |-> error, field |-> field, prediction |-> 0,
     dtype |-> "", model_used |-> "", by |-> None]

IsOk(r) == r.status = 200

\* jsonify accepts the payload: its encoder knows int, float and str, and
\* raises TypeError on a numpy.float32
JsonEncodable(r) == r.dtype # "float32"

\* the response of predict (lines 160-172): the payload, or the error of the
\* except clause when jsonify raised inside the try
PredictResponse(payload) ==
    IF JsonEncodable(payload) THEN payload ELSE Err(500, "TypeError", "")

\* the response of batch_predict (line 211, outside any try): the list, or
\* the server's 500 when jsonify raised
BatchResponse(res) ==
    IF \A i \in 1..Len(res) : JsonEncodable(res[i])
    THEN OkList
    ELSE Err(500, "TypeError", "")

\* batch_predict's except clause: results.append({'error': str(e)})
OnItemError(res, entry) == Append(res, entry)

\* available_models[0]
FirstAvailable(avail) == avail[1]

\* _models[model_name] = <instance>
NoInsert(cache, name, inst) == cache
CacheInsert(cache, name, inst) ==
    [n \in DOMAIN cache \cup {name} |-> IF n = name THEN inst ELSE cache[n]]

ReportRequested(item, name) == IF item.model = Absent THEN DefaultModel ELSE item.model
\* 'model_used': model_name, the name the model was resolved under
ReportedModel(item, name) == name

BatchFallbackLastListed(requested) == ModelIds[Len(ModelIds)]
\* the fallback target of batch_predict, whatever was requested
BatchFallbackTarget(requested) == BatchFallbackModel

(***************************************************************************)
(* Inputs.                                                                 *)
(***************************************************************************)
\* "2024-06-15T08:30:00", a Saturday
GoodTs == <<2024, 6, 15, 8, 30>>
\* "2024-13-15T08:30:00"
BadTs == <<2024, 13, 15, 8, 30>>

\* raw estimates in eighths of a dollar: -2.5 and 12.625
RawEstimates == {-20, 101}

\* model.predict(features)[0]: a numpy.float64 or a numpy.float32 (as an
\* xgboost model returns), or an exception
InferenceOutcomes ==
    {[raises |-> FALSE, v |-> r, dtype |-> d] :
        r \in RawEstimates, d \in {"float", "float32"}}
    \cup {[raises |-> TRUE, v |-> 0, dtype |-> ""]}

\* the estimate of an outcome that is one
Estimate(out) == [v |-> out.v, dtype |-> out.dtype]

SeqsUpTo(S, n) == UNION {[1..k -> S] : k \in 0..n}

(***************************************************************************)
(* Initial state.                                                          *)
(***************************************************************************)
NoData == [has_predictions |-> FALSE, items |-> <<>>]

ThreadsIdle ==
    /\ pc = [t \in Threads |-> "idle"]
    /\ op = [t \in Threads |-> "none"]
    /\ data = [t \in Threads |-> NoData]
    /\ model_name = [t \in Threads |-> ""]
    /\ model = [t \in Threads |-> None]
    /\ ret = [t \in Threads |-> ""]
    /\ available = [t \in Threads |-> <<>>]
    /\ infoIdx = [t \in Threads |-> 0]
    /\ results = [t \in Threads |-> <<>>]
    /\ idx = [t \in Threads |-> 0]
    /\ resp = [t \in Threads |-> NoResp]
    /\ fresh = [t \in Threads |-> None]
    /\ diskChanged = [t \in Threads |-> FALSE]

\* the server has started: nothing is loaded, no request is being served
Started ==
    /\ models = [n \in {} |-> None]
    /\ loadCount = [n \in Names |-> 0]
    /\ ThreadsIdle
    /\ fTs = GoodTs
    /\ fOut = NoFeatures

shared == <<disk, models, loadCount>>
locals == <<op, data, model_name, model, ret, available, infoIdx, results, idx,
            resp, fresh, diskChanged>>
feat == <<fTs, fOut>>

(***************************************************************************)
(* The environment: an artifact appears in or disappears from MODEL_DIR.   *)
(***************************************************************************)
Running(t) == pc[t] # "idle"

DiskChange(n) ==
    /\ disk' = IF n \in disk THEN disk \ {n} ELSE disk \cup {n}
    /\ diskChanged' = [t \in Threads |->
                          diskChanged[t] \/ (Running(t) /\ op[t] = "predict")]
    /\ UNCHANGED <<models, loadCount, pc, op, data, model_name, model, ret,
                   available, infoIdx, results, idx, resp, fresh, feat>>

(***************************************************************************)
(* Control transfers shared by the handlers.  A local variable that is     *)
(* not read again before it is assigned, or before the handler returns,    *)
(* goes back to its initial value.                                         *)
(***************************************************************************)
\* model = load_model(name), continuing at 'after'
CallLoad(t, name, after) ==
    /\ model_name' = [model_name EXCEPT ![t] = name]
    /\ ret' = [ret EXCEPT ![t] = after]
    /\ pc' = [pc EXCEPT ![t] = "load"]

\* model_name and model are assigned again before their next read
ForgetModel(t) ==
    /\ model_name' = [model_name EXCEPT ![t] = ""]
    /\ model' = [model EXCEPT ![t] = None]
    /\ ret' = [ret EXCEPT ![t] = ""]

\* the call returns r
Respond(t, r) ==
    /\ resp' = [resp EXCEPT ![t] = r]
    /\ pc' = [pc EXCEPT ![t] = "done"]
    /\ ForgetModel(t)
    /\ available' = [available EXCEPT ![t] = <<>>]
    /\ infoIdx' = [infoIdx EXCEPT ![t] = 0]

\* a result entry for the current batch item, then the next item
NextItem(t, res) ==
    /\ results' = [results EXCEPT ![t] = res]
    /\ idx' = [idx EXCEPT ![t] = idx[t] + 1]
    /\ pc' = [pc EXCEPT ![t] = "b_item"]
    /\ ForgetModel(t)

\* an exception e reaches the handler's except clause
Raise(t, e) ==
    IF op[t] = "batch"
    THEN /\ NextItem(t, OnItemError(results[t], Err(500, e, "")))
         /\ UNCHANGED <<resp, available, infoIdx>>
    ELSE /\ Respond(t, Err(500, e, ""))
         /\ UNCHANGED <<results, idx>>

(***************************************************************************)
(* load_model.  Nothing is locked: each read of the cache or of the disk   *)
(* and each write of the cache is a step of its own.                       *)
(***************************************************************************)
\* lines 80-81: the cache lookup and, on a hit, the read of the slot.  (A
\* slot is never deleted, and a slot overwritten between the two reads is
\* the one a later lookup reads.)
LoadLookup(t) ==
    /\ pc[t] = "load"
    /\ IF model_name[t] \in DOMAIN models
       THEN /\ model' = [model EXCEPT ![t] = models[model_name[t]]]
            /\ pc' = [pc EXCEPT ![t] = ret[t]]
       ELSE /\ pc' = [pc EXCEPT ![t] = "load_exists"]
            /\ UNCHANGED model
    /\ UNCHANGED <<shared, op, data, model_name, ret, available, infoIdx,
                   results, idx, resp, fresh, diskChanged, feat>>

\* lines 83-85 and 88: os.path.exists on the artifact's path
LoadExists(t) ==
    /\ pc[t] = "load_exists"
    /\ IF model_name[t] \in disk
       THEN /\ pc' = [pc EXCEPT ![t] = "load_read"]
            /\ UNCHANGED model
       ELSE /\ model' = [model EXCEPT ![t] = None]
            /\ pc' = [pc EXCEPT ![t] = ret[t]]
    /\ UNCHANGED <<shared, op, data, model_name, ret, available, infoIdx,
                   results, idx, resp, fresh, diskChanged, feat>>

\* line 86, right-hand side: joblib.load reads the artifact into a new
\* instance, and raises if the artifact is gone since the existence check
LoadRead(t) ==
    /\ pc[t] = "load_read"
    /\ IF model_name[t] \in disk
       THEN LET k == loadCount[model_name[t]] + 1 IN
            /\ loadCount' = [loadCount EXCEPT ![model_name[t]] = k]
            /\ fresh' = [fresh EXCEPT ![t] = [artifact |-> model_name[t], serial |-> k]]
            /\ pc' = [pc EXCEPT ![t] = "load_store"]
            /\ UNCHANGED <<model_name, model, ret, available, infoIdx,
                           results, idx, resp>>
       ELSE /\ Raise(t, "FileNotFoundError")
            /\ UNCHANGED <<loadCount, fresh>>
    /\ UNCHANGED <<disk, models, op, data, diskChanged, feat>>

\* line 86, the assignment: the instance is stored under the name
LoadStore(t) ==
    /\ pc[t] = "load_store"
    /\ models' = CacheInsert(models, model_name[t], fresh[t])
    /\ fresh' = [fresh EXCEPT ![t] = None]
    /\ pc' = [pc EXCEPT ![t] = "load_return"]
    /\ UNCHANGED <<disk, loadCount, op, data, model_name, model, ret, available,
                   infoIdx, results, idx, resp, diskChanged, feat>>

\* line 87: return _models[model_name]
LoadReturn(t) ==
    /\ pc[t] = "load_return"
    /\ model' = [model EXCEPT ![t] = models[model_name[t]]]
    /\ pc' = [pc EXCEPT ![t] = ret[t]]
    /\ UNCHANGED <<shared, op, data, model_name, ret, available, infoIdx,
                   results, idx, resp, fresh, diskChanged, feat>>

(***************************************************************************)
(* get_model_info and the list_models route                                *)
(***************************************************************************)
ListModels(t) ==
    /\ pc[t] = "idle"
    /\ op' = [op EXCEPT ![t] = "list_models"]
    /\ available' = [available EXCEPT ![t] = <<>>]
    /\ infoIdx' = [infoIdx EXCEPT ![t] = 1]
    /\ pc' = [pc EXCEPT ![t] = "info"]
    /\ UNCHANGED <<shared, data, model_name, model, ret, results, idx, resp,
                   fresh, diskChanged, feat>>

\* one round of the loop of lines 99-101; 'available' keeps the names whose
\* flag is set, in the dict's order (the list of line 138)
GetModelInfo(t) ==
    /\ pc[t] = "info"
    /\ LET name == ModelIds[infoIdx[t]]
           avail == IF name \in disk THEN Append(available[t], name)
                                     ELSE available[t]
       IN  IF infoIdx[t] < Len(ModelIds)
           THEN /\ available' = [available EXCEPT ![t] = avail]
                /\ infoIdx' = [infoIdx EXCEPT ![t] = @ + 1]
                /\ UNCHANGED <<pc, resp, model_name, model, ret>>
           ELSE IF op[t] = "predict"
           THEN /\ available' = [available EXCEPT ![t] = avail]
                /\ infoIdx' = [infoIdx EXCEPT ![t] = 0]
                /\ pc' = [pc EXCEPT ![t] = "p_choose"]
                /\ UNCHANGED <<resp, model_name, model, ret>>
           ELSE Respond(t, OkList)
    /\ UNCHANGED <<shared, op, data, results, idx, fresh, diskChanged, feat>>

(***************************************************************************)
(* predict                                                                 *)
(***************************************************************************)
\* lines 120-134: validation, then the first load_model call
PredictRequest(t, req) ==
    /\ pc[t] = "idle"
    /\ op' = [op EXCEPT ![t] = "predict"]
    /\ data' = [data EXCEPT ![t] = [has_predictions |-> FALSE, items |-> <<req>>]]
    /\ IF ~Complete(req)
       THEN Respond(t, Err(400, "Missing required field", FirstMissing(req.present)))
       ELSE /\ CallLoad(t, RequestedModel(req), "p_loaded")
            /\ UNCHANGED <<resp, model, available, infoIdx>>
    /\ UNCHANGED <<shared, results, idx, fresh, diskChanged, feat>>

\* lines 136-138: the model is None, ask get_model_info
PredictFallback(t) ==
    /\ pc[t] = "p_loaded"
    /\ model[t] = None
    /\ available' = [available EXCEPT ![t] = <<>>]
    /\ infoIdx' = [infoIdx EXCEPT ![t] = 1]
    /\ pc' = [pc EXCEPT ![t] = "info"]
    /\ UNCHANGED <<shared, op, data, model_name, model, ret, results, idx, resp,
                   fresh, diskChanged, feat>>

\* lines 139-143
PredictChoose(t) ==
    /\ pc[t] = "p_choose"
    /\ IF available[t] # <<>>
       THEN /\ CallLoad(t, FirstAvailable(available[t]), "p_predict")
            /\ available' = [available EXCEPT ![t] = <<>>]
            /\ UNCHANGED <<resp, model, infoIdx>>
       ELSE Respond(t, Err(500, "No models available for prediction", ""))
    /\ UNCHANGED <<shared, op, data, results, idx, fresh, diskChanged, feat>>

\* lines 146-172: features, inference, clamp, round, the response
PredictInfer(t, out) ==
    /\ \/ pc[t] = "p_predict"
       \/ pc[t] = "p_loaded" /\ model[t] # None
    /\ LET features == create_features(data[t].items[1].ts) IN
       Respond(t,
           IF ~features.ok THEN Err(500, "InvalidTimestamp", "")
           ELSE IF model[t] = None THEN Err(500, "AttributeError", "")
           ELSE IF out.raises THEN Err(500, "InferenceError", "")
           ELSE PredictResponse(
                    Ok(round(Clamp(Estimate(out))),
                       ReportedModel(data[t].items[1], model_name[t]), model[t])))
    /\ UNCHANGED <<shared, op, data, results, idx, fresh, diskChanged, feat>>

(***************************************************************************)
(* batch_predict                                                           *)
(***************************************************************************)
\* lines 177-182
BatchRequest(t, body) ==
    /\ pc[t] = "idle"
    /\ op' = [op EXCEPT ![t] = "batch"]
    /\ data' = [data EXCEPT ![t] = body]
    /\ IF ~body.has_predictions
       THEN /\ Respond(t, Err(400, "Missing predictions array", ""))
            /\ UNCHANGED <<results, idx>>
       ELSE /\ results' = [results EXCEPT ![t] = <<>>]
            /\ idx' = [idx EXCEPT ![t] = 1]
            /\ pc' = [pc EXCEPT ![t] = "b_item"]
            /\ UNCHANGED <<resp, model_name, model, ret, available, infoIdx>>
    /\ UNCHANGED <<shared, fresh, diskChanged, feat>>

\* lines 184-195 and 211: the next item's features and first load_model call,
\* or, after the last item, the response built from the results
BatchItem(t) ==
    /\ pc[t] = "b_item"
    /\ IF idx[t] > Len(data[t].items)
       THEN /\ Respond(t, BatchResponse(results[t]))
            /\ UNCHANGED <<results, idx>>
       ELSE LET item == data[t].items[idx[t]] IN
            IF ~Complete(item)
            THEN /\ NextItem(t, OnItemError(results[t],
                                  Err(500, "KeyError", FirstMissing(item.present))))
                 /\ UNCHANGED <<resp, available, infoIdx>>
            ELSE IF ~create_features(item.ts).ok
            THEN /\ NextItem(t, OnItemError(results[t], Err(500, "InvalidTimestamp", "")))
                 /\ UNCHANGED <<resp, available, infoIdx>>
            ELSE /\ CallLoad(t, RequestedModel(item), "b_loaded")
                 /\ UNCHANGED <<resp, results, idx, model, available, infoIdx>>
    /\ UNCHANGED <<shared, op, data, fresh, diskChanged, feat>>

\* lines 197-199
BatchFallback(t) ==
    /\ pc[t] = "b_loaded"
    /\ model[t] = None
    /\ CallLoad(t, BatchFallbackTarget(model_name[t]), "b_predict")
    /\ UNCHANGED <<shared, op, data, model, available, infoIdx, results, idx, resp,
                   fresh, diskChanged, feat>>

\* lines 201-209
BatchInfer(t, out) ==
    /\ \/ pc[t] = "b_predict"
       \/ pc[t] = "b_loaded" /\ model[t] # None
    /\ NextItem(t,
           IF model[t] = None
           THEN OnItemError(results[t], Err(500, "AttributeError", ""))
           ELSE IF out.raises
           THEN OnItemError(results[t], Err(500, "InferenceError", ""))
           ELSE Append(results[t],
                       Ok(round(Clamp(Estimate(out))),
                          ReportedModel(data[t].items[idx[t]], model_name[t]),
                          model[t])))
    /\ UNCHANGED <<shared, op, data, available, infoIdx, resp, fresh,
                   diskChanged, feat>>

(***************************************************************************)
(* The response is sent; the thread serves the next request.               *)
(***************************************************************************)
Return(t) ==
    /\ pc[t] = "done"
    /\ pc' = [pc EXCEPT ![t] = "idle"]
    /\ op' = [op EXCEPT ![t] = "none"]
    /\ data' = [data EXCEPT ![t] = NoData]
    /\ results' = [results EXCEPT ![t] = <<>>]
    /\ idx' = [idx EXCEPT ![t] = 0]
    /\ resp' = [resp EXCEPT ![t] = NoResp]
    /\ diskChanged' = [diskChanged EXCEPT ![t] = FALSE]
    /\ UNCHANGED <<shared, model_name, model, ret, available, infoIdx, fresh, feat>>

\* the steps of load_model
LoadSteps(t) ==
    \/ LoadLookup(t)
    \/ LoadExists(t)
    \/ LoadRead(t)
    \/ LoadStore(t)
    \/ LoadReturn(t)

\* the steps of predict after the request is read
PredictSteps(t) ==
    \/ GetModelInfo(t)
    \/ PredictFallback(t)
    \/ PredictChoose(t)
    \/ \E out \in InferenceOutcomes : PredictInfer(t, out)

\* the steps of batch_predict after the request is read
BatchSteps(t) ==
    \/ BatchItem(t)
    \/ BatchFallback(t)
    \/ \E out \in InferenceOutcomes : BatchInfer(t, out)

(***************************************************************************)
(* Specifications.  Each serves its requests on every thread of the server *)
(* while artifacts appear in and disappear from MODEL_DIR; they differ in  *)
(* the requests sent and in the artifacts that come and go.                *)
(***************************************************************************)
\* Single predictions for the default model and for xgboost, complete or
\* not, while the artifacts of linear_regression and xgboost come and go.
PredictNames == {"linear_regression", "xgboost"}

Requests ==
    { [present |-> RequiredSet, ts |-> GoodTs, model |-> Absent],
      [present |-> RequiredSet, ts |-> GoodTs, model |-> "xgboost"],
      [present |-> RequiredSet, ts |-> BadTs, model |-> Absent],
      [present |-> RequiredSet \ {"pickup_datetime"},
       ts |-> GoodTs, model |-> Absent],
      [present |-> RequiredSet \ {"pickup_longitude", "pickup_datetime"},
       ts |-> GoodTs, model |-> Absent] }

Init ==
    /\ Started
    /\ disk \in SUBSET PredictNames

Next ==
    \/ \E n \in PredictNames : DiskChange(n)
    \/ \E t \in Threads :
        \/ \E req \in Requests : PredictRequest(t, req)
        \/ LoadSteps(t)
        \/ PredictSteps(t)
        \/ Return(t)

Spec == Init /\ [][Next]_vars

\* Single predictions that name a model outside the enumerated set, and
\* model listings, while that model's artifact and linear_regression's come
\* and go.
AnyNameRequests ==
    {[present |-> RequiredSet, ts |-> GoodTs, model |-> n] : n \in OtherNames}

AnyNames == OtherNames \cup {"linear_regression"}

InitAnyName ==
    /\ Started
    /\ disk \in SUBSET AnyNames

NextAnyName ==
    \/ \E n \in AnyNames : DiskChange(n)
    \/ \E t \in Threads :
        \/ \E req \in AnyNameRequests : PredictRequest(t, req)
        \/ ListModels(t)
        \/ LoadSteps(t)
        \/ PredictSteps(t)
        \/ Return(t)

SpecAnyName == InitAnyName /\ [][NextAnyName]_vars

\* Batch predictions of up to MaxBatch items for the default model, while the
\* artifact of linear_regression comes and goes and that of xgboost stays.
BatchItems ==
    { [present |-> RequiredSet, ts |-> GoodTs, model |-> Absent],
      [present |-> RequiredSet, ts |-> BadTs, model |-> Absent],
      [present |-> RequiredSet \ {"dropoff_latitude", "pickup_datetime"},
       ts |-> GoodTs, model |-> Absent] }

Batches ==
    {[has_predictions |-> FALSE, items |-> <<>>]}
    \cup {[has_predictions |-> TRUE, items |-> s] : s \in SeqsUpTo(BatchItems, MaxBatch)}

BatchNames == {BatchFallbackModel}

InitBatch ==
    /\ Started
    /\ disk \in {S \cup {"xgboost"} : S \in SUBSET BatchNames}

NextBatch ==
    \/ \E n \in BatchNames : DiskChange(n)
    \/ \E t \in Threads :
        \/ \E body \in Batches : BatchRequest(t, body)
        \/ LoadSteps(t)
        \/ BatchSteps(t)
        \/ Return(t)

SpecBatch == InitBatch /\ [][NextBatch]_vars

\* Single and batch predictions side by side, for the default model, while
\* the artifact of linear_regression comes and goes.
MixedItems == {[present |-> RequiredSet, ts |-> GoodTs, model |-> Absent]}

MixedBatches ==
    {[has_predictions |-> TRUE, items |-> s] : s \in SeqsUpTo(MixedItems, MaxBatch)}

MixedNames == {BatchFallbackModel}

InitMixed ==
    /\ Started
    /\ disk \in SUBSET MixedNames

NextMixed ==
    \/ \E n \in MixedNames : DiskChange(n)
    \/ \E t \in Threads :
        \/ \E req \in MixedItems : PredictRequest(t, req)
        \/ \E body \in MixedBatches : BatchRequest(t, body)
        \/ LoadSteps(t)
        \/ PredictSteps(t)
        \/ BatchSteps(t)
        \/ Return(t)

SpecMixed == InitMixed /\ [][NextMixed]_vars

\* Feature derivation alone, over every hour of every day of a week, and over
\* timestamps that do not parse.
FeatureInputs ==
    {<<2024, 6, d, h, 30>> : d \in 10..16, h \in 0..23}
    \cup {<<2024, 6, d, 24, 30>> : d \in 10..16}
    \cup {<<2024, 6, 31, h, 30>> : h \in 0..23}

InitFeatures ==
    /\ disk = {}
    /\ models = [n \in {} |-> None]
    /\ loadCount = [n \in Names |-> 0]
    /\ ThreadsIdle
    /\ fTs \in FeatureInputs
    /\ fOut = NoFeatures

BuildFeatures ==
    /\ fOut = NoFeatures
    /\ fOut' = create_features(fTs)
    /\ UNCHANGED <<shared, pc, locals, fTs>>

SpecFeatures == InitFeatures /\ [][BuildFeatures]_vars

(***************************************************************************)
(* Properties.                                                             *)
(***************************************************************************)
\* f is absent from 'present' and every required field before it is there
IsFirstAbsent(f, present) ==
    \E i \in 1..Len(required_fields) :
        /\ required_fields[i] = f
        /\ f \notin present
        /\ \A j \in 1..(i - 1) : required_fields[j] \in present

\* the first of the four identifiers, in enumeration order, with an artifact
FirstOnDisk ==
    ModelIds[CHOOSE i \in 1..Len(ModelIds) :
        /\ ModelIds[i] \in disk
        /\ \A j \in 1..(i - 1) : ModelIds[j] \notin disk]

BatchRunning(t) == op[t] = "batch" /\ data[t].has_predictions

PredictDone(t) == pc[t] = "done" /\ op[t] = "predict"

\* the request of a predict call
Req(t) == data[t].items[1]

\* what holds of the entries written so far by a running batch call, and of
\* its response once it has ended
BatchEntriesMatchItems(t) ==
    /\ Len(results[t]) = idx[t] - 1
    /\ pc[t] = "done" =>
          /\ Len(results[t]) = Len(data[t].items)
          /\ IsOk(resp[t])
    /\ \A i \in 1..Len(results[t]) :
          LET item == data[t].items[i]
              e == results[t][i]
          IN  /\ ~Complete(item) =>
                     /\ ~IsOk(e)
                     /\ e.error = "KeyError"
                     /\ IsFirstAbsent(e.field, item.present)
              /\ (Complete(item) /\ ~ValidTs(item.ts)) =>
                     ~IsOk(e) /\ e.error = "InvalidTimestamp"
              /\ IsOk(e) => Complete(item) /\ ValidTs(item.ts)
              /\ (~IsOk(e) /\ Complete(item) /\ ValidTs(item.ts)) =>
                     e.error \in {"AttributeError", "InferenceError",
                                  "FileNotFoundError"}

\* C1: a batch call over n items returns n entries, entry i being the outcome
\* of item i.  While the loop runs there is one entry per item already
\* visited, and the call ends with a 200 response that holds one entry per
\* item; an item with a missing field or an unparseable timestamp has an
\* error entry at its own position, a success entry stands only at the
\* position of a well-formed item, and any other failure of a well-formed
\* item (no usable model, a vanished artifact, an inference error) is an
\* error entry at its position: no item aborts the call.
C1_BatchOneEntryPerItem ==
    \A t \in Threads : BatchRunning(t) => BatchEntriesMatchItems(t)

\* C4: every successful prediction, of predict and of every batch entry, is
\* non-negative.
C4_NonNegative ==
    \A t \in Threads :
        /\ (PredictDone(t) /\ IsOk(resp[t])) => resp[t].prediction >= 0
        /\ \A i \in 1..Len(results[t]) :
              IsOk(results[t][i]) => results[t][i].prediction >= 0

\* a batch whose two entries are a clamped negative estimate and a rounded
\* positive one, next to a single prediction that was clamped too
C4_Witness ==
    \E t, u \in Threads :
        /\ Len(results[t]) = 2
        /\ IsOk(results[t][1]) /\ results[t][1].prediction = 0
        /\ IsOk(results[t][2]) /\ results[t][2].prediction > 0
        /\ PredictDone(u) /\ IsOk(resp[u]) /\ resp[u].prediction = 0

\* C8: in batch_predict the second load_model call of an item, made when the
\* first returned None, is for linear_regression; a successful entry's
\* model_used is the item's requested (or default) identifier or
\* linear_regression, and a well-formed item has an error entry whenever
\* neither its requested model nor linear_regression has been loaded,
\* whatever else is available.
C8_BatchFallbackIsLinearRegression ==
    /\ [](\A t \in Threads :
            BatchRunning(t) =>
                \A i \in 1..Len(results[t]) :
                    LET item == data[t].items[i]
                        e == results[t][i]
                    IN  /\ IsOk(e) =>
                               e.model_used \in {RequestedModel(item),
                                                 "linear_regression"}
                        /\ ( /\ RequestedModel(item) \notin DOMAIN models
                             /\ "linear_regression" \notin DOMAIN models ) => ~IsOk(e))
    /\ [][\A t \in Threads :
            (pc[t] = "b_loaded" /\ model[t] = None /\ pc'[t] = "load") =>
                model_name'[t] = "linear_regression"]_vars

\* a well-formed item asking for the default model got an error entry because
\* neither random_forest nor linear_regression could be loaded, with the
\* artifact of xgboost in place
C8_Witness ==
    \E t \in Threads :
        /\ BatchRunning(t)
        /\ Len(results[t]) >= 1
        /\ data[t].items[1].model = Absent
        /\ Complete(data[t].items[1]) /\ ValidTs(data[t].items[1].ts)
        /\ results[t][1].error = "AttributeError"
        /\ "xgboost" \in disk
        /\ "random_forest" \notin DOMAIN models
        /\ "linear_regression" \notin DOMAIN models

\* the estimate of entry e came from an instance loaded from the artifact of
\* the identifier it reports, and that identifier is cached
ServedByReported(e) ==
    /\ e.by # None
    /\ e.by.artifact = e.model_used
    /\ e.model_used \in DOMAIN models

\* C10: every success of predict and every successful batch entry reports the
\* identifier of the instance that produced the estimate, that identifier is
\* in the cache, and the instance is never None.
C10_ModelUsedIsTheModelThatRan ==
    \A t \in Threads :
        /\ (PredictDone(t) /\ IsOk(resp[t])) => ServedByReported(resp[t])
        /\ \A i \in 1..Len(results[t]) :
              IsOk(results[t][i]) => ServedByReported(results[t][i])

\* a prediction that succeeded on the fallback model although artifacts
\* changed during the call, next to a batch entry that did
C10_Witness ==
    \E t, u \in Threads :
        /\ PredictDone(t) /\ IsOk(resp[t])
        /\ diskChanged[t]
        /\ resp[t].model_used # RequestedModel(Req(t))
        /\ Len(results[u]) >= 1
        /\ IsOk(results[u][1])
        /\ results[u][1].model_used # RequestedModel(data[u].items[1])

\* a finished predict call for a complete request with a parseable timestamp,
\* whose requested model has no artifact and was never loaded while another
\* of the four has one, no artifact having changed since the call began, and
\* whose inference raised nothing
C2_Case(t) ==
    /\ PredictDone(t)
    /\ Complete(Req(t)) /\ ValidTs(Req(t).ts)
    /\ ~diskChanged[t]
    /\ RequestedModel(Req(t)) \notin disk
    /\ RequestedModel(Req(t)) \notin DOMAIN models
    /\ disk \cap ModelIdSet # {}
    /\ resp[t].error # "InferenceError"

\* C2: a complete request whose requested model has no artifact, while
\* another of the four identifiers has one, succeeds and reports the first
\* available identifier in enumeration order.  (Read in the claim's favour:
\* the requested model is not in the cache either, the artifacts stay as they
\* are during the call, and the model's inference raises nothing.)
C2_FallbackIsFirstAvailable ==
    \A t \in Threads :
        C2_Case(t) => IsOk(resp[t]) /\ resp[t].model_used = FirstOnDisk

\* C3: a predict request lacking a required field is answered, in the step
\* that reads it, with the 400 error naming the first absent field in the
\* fixed order; the call makes no load_model call, and the step leaves the
\* cache and the load counts as they were.
C3_MissingFieldBeforeAnyLoad ==
    [][\A t \in Threads :
          ( /\ pc[t] = "idle"
            /\ op'[t] = "predict"
            /\ ~Complete(data'[t].items[1]) ) =>
              /\ pc'[t] = "done"
              /\ resp'[t].status = 400
              /\ resp'[t].error = "Missing required field"
              /\ IsFirstAbsent(resp'[t].field, data'[t].items[1].present)
              /\ models' = models
              /\ loadCount' = loadCount]_vars

\* a request without pickup_longitude and pickup_datetime was refused for
\* pickup_longitude, with nothing loaded
C3_Witness ==
    \E t \in Threads :
        /\ PredictDone(t)
        /\ Req(t).present = RequiredSet \ {"pickup_longitude", "pickup_datetime"}
        /\ resp[t].status = 400
        /\ resp[t].field = "pickup_longitude"
        /\ DOMAIN models = {}

\* thread t takes a step of load_model from position p
LoadStepFrom(t, p) == pc[t] = p /\ pc'[t] # p

\* no step of load_model by thread t from position p changes the cache or
\* reads an artifact
CacheUntouched == models' = models /\ loadCount' = loadCount

\* C5: load_model is a lazy cache.  A cached name returns the cached instance
\* without reading the disk, whether or not the artifact is still there.  An
\* uncached name whose artifact is absent returns None, raises nothing and
\* leaves the cache as it was; one whose artifact is there is deserialized,
\* stored under its name and returned.  The cache never holds None, so a miss
\* is checked against the disk again by the next call.
C5_LazyCache ==
    /\ [](\A n \in DOMAIN models : models[n] # None /\ models[n].artifact = n)
    /\ [][\A t \in Threads :
          LET name == model_name[t] IN
          /\ (LoadStepFrom(t, "load") /\ name \in DOMAIN models) =>
                /\ pc'[t] = ret[t]
                /\ model'[t] = models[name]
                /\ CacheUntouched
          /\ (LoadStepFrom(t, "load") /\ name \notin DOMAIN models) =>
                /\ pc'[t] = "load_exists"
                /\ CacheUntouched
          /\ (LoadStepFrom(t, "load_exists") /\ name \notin disk) =>
                /\ pc'[t] = ret[t]
                /\ model'[t] = None
                /\ CacheUntouched
          /\ (LoadStepFrom(t, "load_exists") /\ name \in disk) =>
                /\ pc'[t] = "load_read"
                /\ CacheUntouched
          /\ (LoadStepFrom(t, "load_read") /\ name \in disk) =>
                /\ pc'[t] = "load_store"
                /\ fresh'[t].artifact = name
                /\ loadCount'[name] = loadCount[name] + 1
                /\ models' = models
          /\ LoadStepFrom(t, "load_store") =>
                /\ pc'[t] = "load_return"
                /\ DOMAIN models' = DOMAIN models \cup {name}
                /\ models'[name] = fresh[t]
                /\ \A n \in DOMAIN models \ {name} : models'[n] = models[n]
          /\ LoadStepFrom(t, "load_return") =>
                /\ pc'[t] = ret[t]
                /\ model'[t] = models[name]
                /\ CacheUntouched]_vars

\* a call whose first load of xgboost returned None and whose second, after
\* the artifact appeared, returned the instance now in the cache, while
\* another call is served the cached linear_regression whose artifact is gone
C5_Witness ==
    \E t, u \in Threads :
        /\ pc[t] = "p_predict"
        /\ model_name[t] = "xgboost"
        /\ RequestedModel(Req(t)) = "xgboost"
        /\ model[t] # None
        /\ model[t] = models["xgboost"]
        /\ pc[u] = "p_predict"
        /\ model_name[u] = "linear_regression"
        /\ model[u] # None
        /\ "linear_regression" \notin disk

\* C6: the artifact of an identifier is deserialized, and its cache slot
\* written, at most once.
C6_LoadedAtMostOnce ==
    \A n \in Names : loadCount[n] <= 1

\* C7: for every hour exactly one of the four time-of-day flags is 1, each on
\* its interval, is_rush_hour is 1 on [7,10) and [16,19) and is_peak_hour on
\* {8, 9, 17, 18, 19, 20}.
C7_HourFlags ==
    fOut.ok =>
        LET h == fTs[4] IN
        /\ h \in 0..23
        /\ fOut.hour = h
        /\ fOut.is_morning + fOut.is_afternoon + fOut.is_evening + fOut.is_night = 1
        /\ fOut.is_morning = 1 <=> h \in 6..11
        /\ fOut.is_afternoon = 1 <=> h \in 12..17
        /\ fOut.is_evening = 1 <=> h \in 18..21
        /\ fOut.is_night = 1 <=> h \in (22..23) \cup (0..5)
        /\ fOut.is_rush_hour = 1 <=> h \in (7..9) \cup (16..18)
        /\ fOut.is_peak_hour = 1 <=> h \in {8, 9, 17, 18, 19, 20}
        /\ {fOut.is_morning, fOut.is_afternoon, fOut.is_evening, fOut.is_night,
            fOut.is_rush_hour, fOut.is_peak_hour} \subseteq {0, 1}

\* the features of 22:30 on Saturday 2024-06-15
C7_Witness ==
    /\ fOut.ok
    /\ fTs = <<2024, 6, 15, 22, 30>>
    /\ fOut.is_night = 1
    /\ fOut.is_weekend = 1

\* C9: the keys of the cache are among the four fixed identifiers, so that it
\* never holds more than four entries.  (That the cache starts empty and never
\* loses an entry is not in question.)
C9_KeysAreFixedIdentifiers ==
    /\ DOMAIN models \subseteq ModelIdSet
    /\ Cardinality(DOMAIN models) <= Len(ModelIds)

====
